---- MODULE Spec2Model ----
(***************************************************************************)
(* ForestShield model lifecycle and change detection.                      *)
(*                                                                         *)
(* model-manager/handler.py : registry (get_latest_model, save_new_model,  *)
(*                            get_model_history), centroid classification  *)
(*                            and detect_vegetation_changes                *)
(* k-selector/handler.py    : lambda_handler, select_optimal_k,            *)
(*                            analyze_k_selection_results,                 *)
(*                            cleanup_incomplete_jobs                      *)
(* results-consolidator/handler.py : assess_deforestation_risk,            *)
(*                            determine_intelligent_risk_level             *)
(*                                                                         *)
(* Numbers that are floats in the source are kept as integers in tenths:   *)
(* a vegetation index of 0.6 is 6, a score of 2.3 is 23.                   *)
(***************************************************************************)
EXTENDS Integers, Sequences, FiniteSets, TLC

VARIABLES
    \* change detection (detect_vegetation_changes)
    curModel,      \* the model loaded from current_model_path
    histModel,     \* the model loaded from historical_model_path
    pixels,        \* pixel_statistics["pixels"]
    cdResult,      \* what detect_vegetation_changes returned, or NoResult
    \* centroid classification (_classify_cluster_centroids)
    classResult,   \* [done, map]: the mapping returned for curModel
    \* model registry of one (region, tile): objects under
    \* sagemaker-models/{region}/{tile_id}/{version}/
    clock,         \* datetime.utcnow(), in seconds
    artifacts,     \* version -> training job whose model.tar.gz is stored there
    metadata,      \* version -> content of its metadata.json
    saver,         \* the save_new_model invocations
    reader,        \* the get_latest_model invocations
    \* k selection (analyze_k_selection_results)
    completedJobs, \* completed_jobs, in the order the jobs were seen to complete
    kResult,       \* [done, optimal_k, reason, confidence]
    \* k-selector invocation (lambda_handler, select_optimal_k)
    kEvent,        \* the event: its mode and whether training_data_path is there
    kPc,           \* where the invocation stands
    trainingJobs,  \* training_jobs, one entry per candidate k
    elapsed,       \* time.time() - start_time, in poll intervals
    stopRequested, \* the k whose job got a stop_training_job call
    stopFailed,    \* the k whose stop_training_job call raised
    kResponse,     \* what lambda_handler returned, or NoResponse
    \* risk aggregation (assess_deforestation_risk)
    riskInput,     \* processing results, change detection outcome, statistics
    riskResult,    \* what assess_deforestation_risk returned, or NoAssessment
    \* model comparison (compare_models)
    cmpInput,      \* the event and what is stored at the paths it names
    cmpResult,     \* what compare_models returned or raised, or NoComparison
    \* cluster change detection (perform_cluster_change_detection)
    conInput,      \* the tile groups and what the model manager holds for them
    conRequests,   \* the payloads sent to the model manager, in order
    conResult      \* what perform_cluster_change_detection returned

cdVars == <<curModel, histModel, pixels, cdResult>>

regVars == <<clock, artifacts, metadata, saver, reader>>

kVars == <<completedJobs, kResult>>

selVars == <<kEvent, kPc, trainingJobs, elapsed, stopRequested, stopFailed, kResponse>>

riskVars == <<riskInput, riskResult>>

cmpVars == <<cmpInput, cmpResult>>

conVars == <<conInput, conRequests, conResult>>

vars == <<cdVars, classResult, regVars, kVars, selVars, riskVars, cmpVars, conVars>>

NoResult == [status |-> "none"]

(***************************************************************************)
(* Bounds of the change-detection inputs.                                  *)
(***************************************************************************)
MaxK == 4           \* most centroids of a model that is classified on its own
MaxCmpK == 2        \* most centroids of a model that is compared with another
MaxPixels == 2      \* most pixels of a population

\* vegetation-index values (tenths) a centroid may have: below 0.3, between
\* 0.3 and 0.6, above 0.6
NdviVals == {1, 5, 8}

\* feature counts of a stored model: the 3 the detector slices out of a pixel
\* and the 5 of a full feature vector
FeatureDims == {3, 5}

\* pixels as stored: [ndvi, red, nir, lat, lng]
PixelSet == { <<0, 0, 0, 3, 4>>, <<4, 2, 2, 3, 4>>, <<7, 0, 0, 3, 4>> }

\* a centroid with vegetation index v in an n-feature space
Centroid(v, n) == [i \in 1..n |-> IF i = 1 THEN v ELSE 0]

Models(maxk) ==
    UNION { { [cluster_centers_ |-> [i \in 1..k |-> Centroid(f[i], n)]] :
                f \in [1..k -> NdviVals], n \in FeatureDims } : k \in 1..maxk }

Populations == UNION { [1..n -> PixelSet] : n \in 0..MaxPixels }

(***************************************************************************)
(* _classify_cluster_centroids                                             *)
(***************************************************************************)
\* [(i, centroid[0]) for i, centroid in enumerate(centroids)], 0-based i
NdviValues(model) ==
    [j \in 1..Len(model.cluster_centers_) |->
        [idx |-> j - 1, ndvi |-> model.cluster_centers_[j][1]]]

RECURSIVE InsertDescBeforeEqual(_, _)
\* insertion in front of the elements of equal key: equal keys end up in
\* decreasing index order
InsertDescBeforeEqual(item, s) ==
    IF s = <<>> THEN <<item>>
    ELSE IF Head(s).ndvi > item.ndvi
    THEN <<Head(s)>> \o InsertDescBeforeEqual(item, Tail(s))
    ELSE <<item>> \o s

\* insert item behind every element whose key is >= its key (equal keys keep
\* their original order: Python's sort is stable, also with reverse=True)
RECURSIVE InsertDesc(_, _)
InsertDesc(item, s) ==
    IF s = <<>> THEN <<item>>
    ELSE IF Head(s).ndvi >= item.ndvi THEN <<Head(s)>> \o InsertDesc(item, Tail(s))
    ELSE <<item>> \o s

RECURSIVE SortDesc(_, _)
SortDesc(todo, done) ==
    IF todo = <<>> THEN done
    ELSE SortDesc(Tail(todo), InsertDesc(Head(todo), done))

\* sorted(ndvi_values, key=lambda item: item[1], reverse=True)
SortedClusters(model) == SortDesc(NdviValues(model), <<>>)

\* classifications[key] = val
Assign(map, key, val) ==
    [x \in (DOMAIN map) \cup {key} |-> IF x = key THEN val ELSE map[x]]

EmptyMap == [x \in {} |-> "none"]

RECURSIVE AssignDegraded(_, _, _, _)
\* for i in range(from, to): classifications[sorted[i][0]] = 'degraded_vegetation'
\* (from, to are 0-based positions, to exclusive)
AssignDegraded(map, sorted, from, to) ==
    IF from >= to THEN map
    ELSE AssignDegraded(Assign(map, sorted[from + 1].idx, "degraded_vegetation"),
                        sorted, from + 1, to)

\* for i in range(1, len(sorted_clusters)): the loop runs one position too far
ClassifyMiddleThroughLast(map, sorted) == AssignDegraded(map, sorted, 1, Len(sorted))

\* for i in range(1, len(sorted_clusters) - 1)
ClassifyMiddle(map, sorted) == AssignDegraded(map, sorted, 1, Len(sorted) - 1)

ClassifySingle(c) ==
    IF c.ndvi > 6 THEN Assign(EmptyMap, c.idx, "dense_forest")
    ELSE IF c.ndvi < 3 THEN Assign(EmptyMap, c.idx, "deforested")
    ELSE Assign(EmptyMap, c.idx, "degraded_vegetation")

Classify(model) ==
    LET sorted == SortedClusters(model) IN
    IF sorted = <<>> THEN EmptyMap
    ELSE IF Len(sorted) = 1 THEN ClassifySingle(sorted[1])
    ELSE LET m1 == Assign(EmptyMap, sorted[1].idx, "dense_forest")
             m2 == Assign(m1, sorted[Len(sorted)].idx, "deforested")
         IN  ClassifyMiddle(m2, sorted)

\* dict.get(key): None when the key is missing
MapGet(map, key) == IF key \in DOMAIN map THEN map[key] ELSE "None"

(***************************************************************************)
(* model.predict: index of the nearest centroid, the first one on a tie;   *)
(* raises when the vector's length is not the model's feature count        *)
(***************************************************************************)
NFeatures(model) == Len(model.cluster_centers_[1])

RECURSIVE SqDist(_, _, _)
SqDist(x, c, i) ==
    IF i > Len(x) THEN 0
    ELSE (x[i] - c[i]) * (x[i] - c[i]) + SqDist(x, c, i + 1)

Predict(model, x) ==
    LET cs == model.cluster_centers_
        d(j) == SqDist(x, cs[j], 1)
        best == CHOOSE j \in 1..Len(cs) :
                    /\ \A l \in 1..Len(cs) : d(j) <= d(l)
                    /\ \A l \in 1..(j - 1) : d(l) > d(j)
    IN  best - 1

PredictRaises(model, x) == Len(x) # NFeatures(model)

(***************************************************************************)
(* detect_vegetation_changes                                               *)
(***************************************************************************)
\* p[:3]
Slice3(p) == SubSeq(p, 1, IF Len(p) < 3 THEN Len(p) ELSE 3)

PixelsToPredict(pop) == [i \in 1..Len(pop) |-> Slice3(pop[i])]

\* numpy's array.any(): some element is nonzero (False for an empty array)
ArrayAny(arr) == \E i \in 1..Len(arr) : \E j \in 1..Len(arr[i]) : arr[i][j] # 0

TransitionKeys ==
    { "forest_to_degraded", "forest_to_deforested", "degraded_to_deforested",
      "degraded_to_forest", "deforested_to_degraded", "deforested_to_forest" }

ZeroTransitions == [key \in TransitionKeys |-> 0]

\* f"{hist_class}_to_{curr_class}"
TransitionKey(hist_class, curr_class) == hist_class \o "_to_" \o curr_class

\* one pass of the tally loop over pixel i (1-based), on the tally so far
TallyStep(t, hist_class, curr_class) ==
    IF hist_class # curr_class
    THEN LET key == TransitionKey(hist_class, curr_class) IN
         [changed_pixels |-> t.changed_pixels + 1,
          transitions |->
              IF key \in TransitionKeys
              THEN [t.transitions EXCEPT ![key] = @ + 1]
              ELSE t.transitions]
    ELSE t

RECURSIVE Tally(_, _, _, _, _, _)
Tally(t, i, current_labels, historical_labels, current_class_map, historical_class_map) ==
    IF i > Len(current_labels) THEN t
    ELSE Tally(TallyStep(t, MapGet(historical_class_map, historical_labels[i]),
                            MapGet(current_class_map, current_labels[i])),
               i + 1, current_labels, historical_labels,
               current_class_map, historical_class_map)

NoDataResult ==
    [status |-> "returned", analysis_method |-> "change_detection_no_data",
     pixels_changed_clusters |-> 0]

RaisedResult == [status |-> "raised"]

DetectVegetationChanges(current_model, historical_model, pop) ==
    LET current_class_map == Classify(current_model)
        historical_class_map == Classify(historical_model)
        pixels_to_predict == PixelsToPredict(pop)
    IN
    IF ~ArrayAny(pixels_to_predict) THEN NoDataResult
    ELSE IF \E i \in 1..Len(pixels_to_predict) :
                PredictRaises(current_model, pixels_to_predict[i])
                \/ PredictRaises(historical_model, pixels_to_predict[i])
    THEN RaisedResult
    ELSE
    LET current_labels ==
            [i \in 1..Len(pixels_to_predict) |-> Predict(current_model, pixels_to_predict[i])]
        historical_labels ==
            [i \in 1..Len(pixels_to_predict) |-> Predict(historical_model, pixels_to_predict[i])]
        t == Tally([changed_pixels |-> 0, transitions |-> ZeroTransitions], 1,
                   current_labels, historical_labels,
                   current_class_map, historical_class_map)
        total_pixels == Len(current_labels)
        change_percentage ==
            IF total_pixels > 0 THEN (t.changed_pixels * 100) \div total_pixels ELSE 0
    IN
    [status |-> "returned",
     analysis_method |-> "change_detection_with_centroid_classification",
     pixels_changed_clusters |-> t.changed_pixels,
     change_percentage |-> change_percentage,
     total_pixels |-> total_pixels,
     forest_to_degraded |-> t.transitions["forest_to_degraded"],
     degraded_to_deforested |-> t.transitions["degraded_to_deforested"],
     forest_to_deforested |-> t.transitions["forest_to_deforested"],
     new_growth_pixels |-> t.transitions["degraded_to_forest"]
                           + t.transitions["deforested_to_degraded"]
                           + t.transitions["deforested_to_forest"]]

(***************************************************************************)
(* Model registry: save_new_model, get_latest_model, get_model_history     *)
(***************************************************************************)
ClockStart == 9     \* second at which the registry is first used
MaxTicks == 1       \* seconds that pass while it is observed
NumSaves == 2       \* save_new_model invocations, each of its own training job
NumLookups == 1     \* get_latest_model invocations

Savers == 1..NumSaves
Readers == 1..NumLookups

\* training_job_name of invocation p
JobOf(p) == <<"job", p>>

\* timestamp.strftime('%Y%m%d-%H%M%S'): fixed width, zero padded; two digits
\* stand for the fourteen
VersionStr(t) == <<(t \div 10) % 10, t % 10>>

\* string comparison a < b
RECURSIVE LexLess(_, _)
LexLess(a, b) ==
    IF a = <<>> THEN b # <<>>
    ELSE IF b = <<>> THEN FALSE
    ELSE IF Head(a) # Head(b) THEN Head(a) < Head(b)
    ELSE LexLess(Tail(a), Tail(b))

\* sorted(prefixes)[0]: reverse=True left out
OldestPrefix(prefixes) ==
    CHOOSE v \in prefixes : \A w \in prefixes : w = v \/ LexLess(v, w)

\* sorted(prefixes, reverse=True)[0]
LatestPrefix(prefixes) ==
    CHOOSE v \in prefixes : \A w \in prefixes : w = v \/ LexLess(w, v)

RECURSIVE SortedDesc(_)
\* sorted(prefixes, reverse=True)
SortedDesc(prefixes) ==
    IF prefixes = {} THEN <<>>
    ELSE LET v == LatestPrefix(prefixes) IN <<v>> \o SortedDesc(prefixes \ {v})

\* response['CommonPrefixes'] of list_objects_v2(Prefix, Delimiter='/'): one
\* prefix per version that holds any object
CommonPrefixes == (DOMAIN artifacts) \cup (DOMAIN metadata)

ModelKey(version) == <<"sagemaker-models", version, "model.tar.gz">>

\* the metadata dict of save_new_model
Metadata(version, job) ==
    [model_version |-> version,
     model_s3_path |-> ModelKey(version),
     source_training_job |-> job]

NoMetadata == [model_version |-> <<>>, model_s3_path |-> <<>>, source_training_job |-> <<>>]

IdleSaver == [pc |-> "idle", job |-> <<>>, version |-> <<>>, fault |-> "none"]

IdleReader ==
    [pc |-> "idle", has_ids |-> TRUE, listing |-> {}, latest |-> <<>>,
     model_exists |-> FALSE, metadata |-> NoMetadata, fault |-> FALSE,
     complete_at_list |-> {}]

\* ---- save_new_model ----------------------------------------------------
\* a required event field is missing: ValueError before any call
SaveRejected(p) ==
    /\ saver[p].pc = "idle"
    /\ saver' = [saver EXCEPT ![p] = [IdleSaver EXCEPT !.pc = "raised", !.fault = "event"]]
    /\ UNCHANGED <<clock, artifacts, metadata, reader, cdVars, classResult, kVars, selVars, riskVars, cmpVars, conVars>>

\* describe_training_job raises: logged and re-raised
SaveDescribeFail(p) ==
    /\ saver[p].pc = "idle"
    /\ saver' = [saver EXCEPT ![p] =
                    [pc |-> "raised", job |-> JobOf(p), version |-> <<>>, fault |-> "describe"]]
    /\ UNCHANGED <<clock, artifacts, metadata, reader, cdVars, classResult, kVars, selVars, riskVars, cmpVars, conVars>>

\* steps 1 and 2: the job is described and the version string is taken
\* from the clock
SaveBegin(p) ==
    /\ saver[p].pc = "idle"
    /\ saver' = [saver EXCEPT ![p] =
                    [pc |-> "copy", job |-> JobOf(p), version |-> VersionStr(clock),
                     fault |-> "none"]]
    /\ UNCHANGED <<clock, artifacts, metadata, reader, cdVars, classResult, kVars, selVars, riskVars, cmpVars, conVars>>

\* step 3: copy_object writes {version}/model.tar.gz
SaveCopy(p) ==
    /\ saver[p].pc = "copy"
    /\ artifacts' = Assign(artifacts, saver[p].version, saver[p].job)
    /\ saver' = [saver EXCEPT ![p].pc = "put"]
    /\ UNCHANGED <<clock, metadata, reader, cdVars, classResult, kVars, selVars, riskVars, cmpVars, conVars>>

\* copy_object raises: logged and re-raised, nothing is written
SaveCopyFail(p) ==
    /\ saver[p].pc = "copy"
    /\ saver' = [saver EXCEPT ![p].pc = "raised", ![p].fault = "copy"]
    /\ UNCHANGED <<clock, artifacts, metadata, reader, cdVars, classResult, kVars, selVars, riskVars, cmpVars, conVars>>

\* step 4: put_object writes {version}/metadata.json, then status success
SavePut(p) ==
    /\ saver[p].pc = "put"
    /\ metadata' = Assign(metadata, saver[p].version,
                          Metadata(saver[p].version, saver[p].job))
    /\ saver' = [saver EXCEPT ![p].pc = "returned"]
    /\ UNCHANGED <<clock, artifacts, reader, cdVars, classResult, kVars, selVars, riskVars, cmpVars, conVars>>

\* put_object raises and the exception is swallowed: status success
SavePutFailSwallowed(p) ==
    /\ saver[p].pc = "put"
    /\ saver' = [saver EXCEPT ![p].pc = "returned", ![p].fault = "put"]
    /\ UNCHANGED <<clock, artifacts, metadata, reader, cdVars, classResult, kVars, selVars, riskVars, cmpVars, conVars>>

\* put_object raises: logged and re-raised, the copied artifact stays
SavePutFail(p) ==
    /\ saver[p].pc = "put"
    /\ saver' = [saver EXCEPT ![p].pc = "raised", ![p].fault = "put"]
    /\ UNCHANGED <<clock, artifacts, metadata, reader, cdVars, classResult, kVars, selVars, riskVars, cmpVars, conVars>>

\* ---- get_latest_model --------------------------------------------------
Absent(r, fault) ==
    [reader[r] EXCEPT !.pc = "returned", !.model_exists = FALSE,
                      !.metadata = NoMetadata, !.fault = fault]

\* tile_id or region is missing: ValueError
LatestRejected(r) ==
    /\ reader[r].pc = "idle"
    /\ reader' = [reader EXCEPT ![r] = [IdleReader EXCEPT !.pc = "raised", !.has_ids = FALSE]]
    /\ UNCHANGED <<clock, artifacts, metadata, saver, cdVars, classResult, kVars, selVars, riskVars, cmpVars, conVars>>

\* list_objects_v2 raises: caught, model_exists False
LatestListFail(r) ==
    /\ reader[r].pc = "idle"
    /\ reader' = [reader EXCEPT ![r] = [IdleReader EXCEPT !.pc = "returned", !.fault = TRUE]]
    /\ UNCHANGED <<clock, artifacts, metadata, saver, cdVars, classResult, kVars, selVars, riskVars, cmpVars, conVars>>

\* list_objects_v2 answers; no CommonPrefixes: model_exists False, else the
\* greatest prefix is kept
LatestList(r) ==
    /\ reader[r].pc = "idle"
    /\ reader' = [reader EXCEPT ![r] =
          IF CommonPrefixes = {}
          THEN [IdleReader EXCEPT !.pc = "returned"]
          ELSE [IdleReader EXCEPT !.pc = "listed",
                                  !.listing = CommonPrefixes,
                                  !.latest = LatestPrefix(CommonPrefixes),
                                  !.complete_at_list = DOMAIN metadata]]
    /\ UNCHANGED <<clock, artifacts, metadata, saver, cdVars, classResult, kVars, selVars, riskVars, cmpVars, conVars>>

\* get_object of {latest}metadata.json raises (an I/O error, or the key
\* does not exist): caught, model_exists False
LatestGetFail(r) ==
    /\ reader[r].pc = "listed"
    /\ reader' = [reader EXCEPT ![r] = Absent(r, TRUE)]
    /\ UNCHANGED <<clock, artifacts, metadata, saver, cdVars, classResult, kVars, selVars, riskVars, cmpVars, conVars>>

LatestGet(r) ==
    /\ reader[r].pc = "listed"
    /\ reader' = [reader EXCEPT ![r] =
          IF reader[r].latest \in DOMAIN metadata
          THEN [reader[r] EXCEPT !.pc = "returned", !.model_exists = TRUE,
                                 !.metadata = metadata[reader[r].latest]]
          ELSE Absent(r, FALSE)]
    /\ UNCHANGED <<clock, artifacts, metadata, saver, cdVars, classResult, kVars, selVars, riskVars, cmpVars, conVars>>

\* get_latest_model run without interruption and without I/O errors
GetLatestModel ==
    IF CommonPrefixes = {} THEN [model_exists |-> FALSE, metadata |-> NoMetadata]
    ELSE LET latest == LatestPrefix(CommonPrefixes) IN
         IF latest \in DOMAIN metadata
         THEN [model_exists |-> TRUE, metadata |-> metadata[latest]]
         ELSE [model_exists |-> FALSE, metadata |-> NoMetadata]

\* ---- get_model_history -------------------------------------------------
RECURSIVE LoadAll(_)
\* the loop over the sorted prefixes: a version whose metadata cannot be
\* read is skipped
LoadAll(versions) ==
    IF versions = <<>> THEN <<>>
    ELSE IF Head(versions) \in DOMAIN metadata
    THEN <<metadata[Head(versions)]>> \o LoadAll(Tail(versions))
    ELSE LoadAll(Tail(versions))

\* get_model_history run without interruption and without I/O errors
GetModelHistory == LoadAll(SortedDesc(CommonPrefixes))

\* a second passes
Tick ==
    /\ clock < ClockStart + MaxTicks
    /\ clock' = clock + 1
    /\ UNCHANGED <<artifacts, metadata, saver, reader, cdVars, classResult, kVars, selVars, riskVars, cmpVars, conVars>>

(***************************************************************************)
(* k selection: analyze_k_selection_results                                *)
(*                                                                         *)
(* Scores are in tenths: the complexity penalty k * 0.1 is k.  The quality *)
(* metric (msd) takes whole values, so no two candidates share a score and *)
(* the floating-point sums of the source order as the exact ones do.       *)
(***************************************************************************)
MaxMetric == 5      \* largest quality metric of a completed job

\* k_values
KValues == {2, 3, 4, 5, 6}

\* quality metrics, in tenths
MetricVals == { 10 * u : u \in 0..MaxMetric }

\* the metric, in tenths, at which candidate 2 or 4 scores what candidate 6
\* scores with metric 0; the floating-point sums wcss + k * 0.1 of these
\* values are equal, as the exact ones are
TieMetrics(k) == IF k \in {2, 4} THEN {6 - k} ELSE {}

MetricValsOf(k) == MetricVals \cup TieMetrics(k)

RECURSIVE Ascending(_)
\* the members of a set of numbers, smallest first
Ascending(S) ==
    IF S = {} THEN <<>>
    ELSE LET m == CHOOSE x \in S : \A y \in S : x <= y
         IN  <<m>> \o Ascending(S \ {m})

Reversed(s) == [i \in 1..Len(s) |-> s[Len(s) + 1 - i]]

\* completed_jobs for the candidates S with metrics f, in a given order of k
JobList(order, f) == [i \in 1..Len(order) |-> [k |-> order[i], msd |-> f[order[i]]]]

\* the orders in which the candidates S are seen to complete: increasing or
\* decreasing k
CompletionOrders(S) == {Ascending(S), Reversed(Ascending(S))}

\* the k_analysis entry of a job: score = wcss + k * 0.1
Analysis(job) == [k |-> job.k, wcss |-> job.msd, score |-> job.msd + job.k]

RECURSIVE InsertByScore(_, _)
\* insertion behind every entry whose score is <= the new one (list.sort is
\* stable)
InsertByScore(item, s) ==
    IF s = <<>> THEN <<item>>
    ELSE IF Head(s).score <= item.score THEN <<Head(s)>> \o InsertByScore(item, Tail(s))
    ELSE <<item>> \o s

RECURSIVE SortByScore(_, _)
SortByScore(todo, done) ==
    IF todo = <<>> THEN done
    ELSE SortByScore(Tail(todo), InsertByScore(Head(todo), done))

\* k_analysis after k_analysis.sort(key=lambda x: x['score'])
KAnalysis(jobs) == SortByScore([i \in 1..Len(jobs) |-> Analysis(jobs[i])], <<>>)

\* improvements[i-1] = k_analysis[i-1]['score'] - k_analysis[i]['score']
Improvements(ka) == [i \in 1..(Len(ka) - 1) |-> ka[i].score - ka[i + 1].score]

SeqMax(s) == CHOOSE m \in { s[i] : i \in DOMAIN s } : \A i \in DOMAIN s : s[i] <= m

\* improvement < max_improvement * 0.3
BelowElbowThreshold(improvement, max_improvement) ==
    10 * improvement < 3 * max_improvement

\* the positions (1-based) at which the elbow loop would return
ElbowPositions(imps) ==
    { i \in DOMAIN imps : BelowElbowThreshold(imps[i], SeqMax(imps)) }

SetMin(S) == CHOOSE x \in S : \A y \in S : x <= y

Min2(a, b) == IF a <= b THEN a ELSE b

\* the confidence without its cap
UncappedConfidence(ka) ==
    IF Len(ka) > 1 THEN 5 + (ka[2].score - ka[1].score) * 2 ELSE 6

\* min(0.9, 0.5 + score_gap * 2), or 0.6 for a single candidate; in tenths
BestScoreConfidence(ka) ==
    IF Len(ka) > 1 THEN Min2(9, 5 + (ka[2].score - ka[1].score) * 2) ELSE 6

AnalyzeKSelectionResults(jobs) ==
    IF jobs = <<>>
    THEN [done |-> TRUE, optimal_k |-> 4, reason |-> "default", confidence |-> 5]
    ELSE
    LET ka == KAnalysis(jobs)
        imps == Improvements(ka)
    IN  IF Len(ka) >= 3 /\ ElbowPositions(imps) # {}
        THEN [done |-> TRUE, optimal_k |-> ka[SetMin(ElbowPositions(imps))].k,
              reason |-> "elbow", confidence |-> 8]
        ELSE [done |-> TRUE, optimal_k |-> ka[1].k,
              reason |-> "best_score", confidence |-> BestScoreConfidence(ka)]

NotAnalyzed == [done |-> FALSE, optimal_k |-> 0, reason |-> "none", confidence |-> 0]

(***************************************************************************)
(* k-selector invocation: lambda_handler, select_optimal_k and             *)
(* cleanup_incomplete_jobs.  A poll round is the body of the while loop:   *)
(* one describe_training_job call per job still in progress, then the      *)
(* sleep.  Time is counted in poll intervals.                              *)
(***************************************************************************)
MaxWaitPolls == 2   \* max_wait_time, in poll intervals

\* k_values, as the list the loops run over
KValueList == Ascending(KValues)

\* msd values (tenths) a completed job may report
PollMetricVals == {10, 30}

\* the events: mode as read by event.get('mode', 'select-optimal-k'), and
\* whether the key training_data_path is there
Events == [mode : {"select-optimal-k", "other"}, has_training_data_path : BOOLEAN]

NoResponse == [outcome |-> "none"]

\* the except branch of lambda_handler: a returned dict, nothing is raised
\* an error response whose fallback k is no candidate
ErrorResponseZeroK ==
    [outcome |-> "returned", statusCode |-> 500, status |-> "error", optimal_k |-> 0]

ErrorResponse ==
    [outcome |-> "returned", statusCode |-> 500, status |-> "error", optimal_k |-> 4]

\* the training_jobs entry of candidate k: in progress with its ARN, or
\* Failed without one when start_k_selection_training_job raised
SubmittedJob(k, failed) ==
    [k |-> k, job_arn |-> ~failed,
     status |-> IF failed THEN "Failed" ELSE "InProgress", msd |-> 0]

RECURSIVE FirstFailure(_, _)
\* position of the first candidate of failing from position i on, or past
\* the end
FirstFailure(failing, i) ==
    IF i > Len(KValueList) THEN i
    ELSE IF KValueList[i] \in failing THEN i
    ELSE FirstFailure(failing, i + 1)

\* the submission loop without the inner try: the first exception ends it
SubmitUntilFailure(failing) ==
    [i \in 1..(FirstFailure(failing, 1) - 1) |-> SubmittedJob(KValueList[i], FALSE)]

\* for k in k_values: try ... append / except ... append
SubmitAll(failing) ==
    [i \in 1..Len(KValueList) |-> SubmittedJob(KValueList[i], KValueList[i] \in failing)]

\* [job for job in training_jobs if job['status'] != 'Failed']
NotFailed(jobs) == { i \in DOMAIN jobs : jobs[i].status # "Failed" }

\* the while condition
KeepPolling(completed, jobs, t) ==
    /\ Len(completed) < Cardinality(NotFailed(jobs))
    /\ t < MaxWaitPolls

\* job['status'] == 'InProgress' and job['job_arn']
InProgress(job) == job.status = "InProgress" /\ job.job_arn

Polled(jobs) == { i \in DOMAIN jobs : InProgress(jobs[i]) }

\* what a describe_training_job call may do: answer a status (with the msd
\* for a completed job) or raise
DescribeOutcomes ==
    [status : {"InProgress", "Failed", "Stopped", "error"}, msd : {0}]
        \cup [status : {"Completed"}, msd : PollMetricVals]

\* the job entry after its describe call
AfterDescribe(job, resp) ==
    IF resp.status \in {"Completed", "Failed", "Stopped"}
    THEN [job EXCEPT !.status = resp.status, !.msd = resp.msd]
    ELSE job

RECURSIVE SeenCompleted(_, _, _)
\* the jobs a round appends to completed_jobs, in the order of the for loop
SeenCompleted(before, after, i) ==
    IF i > Len(after) THEN <<>>
    ELSE (IF before[i].status = "InProgress" /\ after[i].status = "Completed"
          THEN << [k |-> after[i].k, msd |-> after[i].msd] >>
          ELSE <<>>) \o SeenCompleted(before, after, i + 1)

\* AnalyzeKSelectionResults answers an empty list itself, with its own reason
DefaultFromAnalysis == AnalyzeKSelectionResults(<<>>)

\* optimal_k = 4, "Default - no successful training jobs", 0.5
DefaultSelection ==
    [done |-> TRUE, optimal_k |-> 4, reason |-> "default_no_successful_jobs",
     confidence |-> 5]

\* a selection only once every candidate was seen to complete
SelectWhenAllSeen(completed) ==
    IF Len(completed) < Len(KValueList) THEN DefaultSelection
    ELSE AnalyzeKSelectionResults(completed)

\* if not completed_jobs: ... else: analyze_k_selection_results(completed_jobs)
SelectFrom(completed) ==
    IF completed = <<>> THEN DefaultSelection
    ELSE AnalyzeKSelectionResults(completed)

\* every submitted job not seen to complete
NotCompleted(jobs) ==
    { jobs[i].k : i \in { j \in DOMAIN jobs : jobs[j].job_arn /\ jobs[j].status # "Completed" } }

\* the jobs cleanup_incomplete_jobs calls stop_training_job for
Incomplete(jobs) == { jobs[i].k : i \in Polled(jobs) }

\* the dict select_optimal_k returns
SuccessResponse(sel, completed, jobs) ==
    [outcome |-> "returned", statusCode |-> 200, status |-> "success",
     optimal_k |-> sel.optimal_k, selection_reason |-> sel.reason,
     confidence_score |-> sel.confidence,
     completed_jobs |-> Len(completed), total_jobs |-> Len(jobs)]

\* an invalid mode raises ValueError, a missing training_data_path raises
\* KeyError at event['training_data_path']: lambda_handler catches both
HandlerRejects ==
    /\ kPc = "start"
    /\ kEvent.mode # "select-optimal-k" \/ ~kEvent.has_training_data_path
    /\ kResponse' = ErrorResponse
    /\ kPc' = "done"
    /\ UNCHANGED <<kEvent, trainingJobs, elapsed, stopRequested, stopFailed,
                   kVars, cdVars, classResult, regVars, riskVars, cmpVars, conVars>>

\* the submission loop: the candidates of failing raise, the others start
Submit ==
    /\ kPc = "start"
    /\ kEvent.mode = "select-optimal-k"
    /\ kEvent.has_training_data_path
    /\ \E failing \in SUBSET KValues : trainingJobs' = SubmitAll(failing)
    /\ kPc' = "polling"
    /\ UNCHANGED <<kEvent, elapsed, stopRequested, stopFailed, kResponse,
                   kVars, cdVars, classResult, regVars, riskVars, cmpVars, conVars>>

\* one pass of the while loop
PollRound ==
    /\ kPc = "polling"
    /\ KeepPolling(completedJobs, trainingJobs, elapsed)
    /\ \E resp \in [Polled(trainingJobs) -> DescribeOutcomes] :
          LET after == [i \in DOMAIN trainingJobs |->
                           IF i \in Polled(trainingJobs)
                           THEN AfterDescribe(trainingJobs[i], resp[i])
                           ELSE trainingJobs[i]]
              seen == completedJobs \o SeenCompleted(trainingJobs, after, 1)
          IN  /\ trainingJobs' = after
              /\ completedJobs' = seen
              /\ elapsed' = IF Len(seen) < Cardinality(NotFailed(after))
                            THEN elapsed + 1 ELSE elapsed
    /\ UNCHANGED <<kEvent, kPc, stopRequested, stopFailed, kResponse, kResult,
                   cdVars, classResult, regVars, riskVars, cmpVars, conVars>>

\* the loop is left and the optimal k is chosen
SelectK ==
    /\ kPc = "polling"
    /\ ~KeepPolling(completedJobs, trainingJobs, elapsed)
    /\ kResult' = SelectFrom(completedJobs)
    /\ kPc' = "selected"
    /\ UNCHANGED <<kEvent, trainingJobs, elapsed, stopRequested, stopFailed,
                   kResponse, completedJobs, cdVars, classResult, regVars, riskVars, cmpVars, conVars>>

\* cleanup_incomplete_jobs, whose stop calls may raise (logged), then return
CleanupAndReturn ==
    /\ kPc = "selected"
    /\ stopRequested' = Incomplete(trainingJobs)
    /\ stopFailed' \in SUBSET Incomplete(trainingJobs)
    /\ kResponse' = SuccessResponse(kResult, completedJobs, trainingJobs)
    /\ kPc' = "done"
    /\ UNCHANGED <<kEvent, trainingJobs, elapsed, kVars, cdVars, classResult,
                   regVars, riskVars, cmpVars, conVars>>

(***************************************************************************)
(* Risk aggregation (results-consolidator): analyze_model_usage,           *)
(* determine_intelligent_risk_level and assess_deforestation_risk.         *)
(* Tiles are numbered; a risk factor, a formatted string in the source, is *)
(* the pair of its kind and the value it shows.                            *)
(***************************************************************************)
MaxImages == 2      \* most processing results of one consolidation
MaxTiles == 2       \* most tiles, and most per-tile comparisons

TileIds == 1..MaxTiles

\* a processing result: the tile its imageId starts with, model_reused, and
\* whether imageId is a string at all (split raises on anything else)
Images ==
    [tile : TileIds, model_reused : BOOLEAN, id_is_text : {TRUE}]
        \cup { [tile |-> 1, model_reused |-> FALSE, id_is_text |-> FALSE] }

ProcessingResults == UNION { [1..n -> Images] : n \in 1..MaxImages }

\* a change-detection dict as detect_vegetation_changes returns it
Metrics(changed, fd, dd, fx) ==
    [analysis_method |-> "change_detection_with_centroid_classification",
     pixels_changed_clusters |-> changed, forest_to_degraded |-> fd,
     degraded_to_deforested |-> dd, forest_to_deforested |-> fx]

ChangeMetrics ==
    { Metrics(0, 0, 0, 0), Metrics(1, 0, 0, 0), Metrics(1, 1, 0, 0),
      Metrics(1, 0, 1, 0), Metrics(1, 0, 0, 1),
      [analysis_method |-> "change_detection_no_data", pixels_changed_clusters |-> 0] }

\* what compare_models returns
Comparisons ==
    { [status |-> "completed", change_detection |-> m] : m \in ChangeMetrics }
        \cup { [status |-> "failed", error |-> "error"] }

\* what perform_cluster_change_detection returns: 'completed' with one entry
\* per compared tile, 'no_temporal_data' with none, or 'failed'
ChangeDetections ==
    { [status |-> "failed", error |-> "error"],
      [status |-> "no_temporal_data", change_detections |-> <<>>] }
        \cup UNION { { [status |-> "completed",
                        change_detections |->
                            [i \in 1..n |-> [tile_id |-> i, comparison |-> c[i]]]] :
                       c \in [1..n -> Comparisons] } : n \in 1..MaxTiles }

StatisticsSet ==
    { [avg_vegetation_coverage |-> 60, avg_ndvi |-> 5, data_quality_percentage |-> 100] }

\* dict.get(key, default)
DictGet(dict, key, default) == IF key \in DOMAIN dict THEN dict[key] ELSE default

Factor(kind, value) == [kind |-> kind, value |-> value]

\* analyze_model_usage
AnalyzeModelUsage(results) ==
    [total_images |-> Len(results),
     models_reused |-> Cardinality({ i \in DOMAIN results : results[i].model_reused }),
     unique_tiles |-> { results[i].tile : i \in DOMAIN results }]

\* model_efficiency = models_reused / total_images * 100, floored
ModelEfficiency(model_analysis) ==
    IF model_analysis.total_images > 0
    THEN (model_analysis.models_reused * 100) \div model_analysis.total_images
    ELSE 0

\* the branch the loop of determine_intelligent_risk_level takes for one
\* detection
Indicator(detection) ==
    LET change_metrics == DictGet(detection.comparison, "change_detection", EmptyMap)
        pixels_changed == DictGet(change_metrics, "pixels_changed_clusters", 0)
        forest_to_degraded == DictGet(change_metrics, "forest_to_degraded", 0)
        degraded_to_deforested == DictGet(change_metrics, "degraded_to_deforested", 0)
    IN  IF forest_to_degraded > 0 \/ degraded_to_deforested > 0 THEN "high"
        ELSE IF pixels_changed > 0 THEN "medium"
        ELSE "none"

RECURSIVE Indicators(_, _, _)
\* the factors the loop appends for the branch `which`, in list order
Indicators(detections, which, kind) ==
    IF detections = <<>> THEN <<>>
    ELSE (IF Indicator(Head(detections)) = which
          THEN << Factor(kind, Head(detections).tile_id) >>
          ELSE <<>>) \o Indicators(Tail(detections), which, kind)

\* the detections the loop runs over: none unless the status is 'completed'
Examined(change_detection) ==
    IF change_detection.status = "completed"
    THEN DictGet(change_detection, "change_detections", <<>>)
    ELSE <<>>

InfoIndicators(model_analysis, statistics) ==
    (IF ModelEfficiency(model_analysis) > 80
     THEN << Factor("model_efficiency", ModelEfficiency(model_analysis)) >> ELSE <<>>)
    \o (IF Cardinality(model_analysis.unique_tiles) > 1
        THEN << Factor("unique_tiles", Cardinality(model_analysis.unique_tiles)) >>
        ELSE <<>>)
    \o << Factor("avg_vegetation_coverage", statistics.avg_vegetation_coverage),
          Factor("avg_ndvi", statistics.avg_ndvi),
          Factor("data_quality", statistics.data_quality_percentage) >>

DetermineIntelligentRiskLevel(model_analysis, change_detection, statistics) ==
    LET high == Indicators(Examined(change_detection), "high", "cluster_migration")
        medium == Indicators(Examined(change_detection), "medium", "vegetation_changes")
        info == InfoIndicators(model_analysis, statistics)
    IN  IF high # <<>>
        THEN [level |-> "HIGH", priority |-> "CHANGE_DETECTED",
              description |-> "Significant vegetation changes detected through cluster analysis",
              risk_factors |-> high \o medium \o info]
        ELSE IF medium # <<>>
        THEN [level |-> "MEDIUM", priority |-> "MONITORING_REQUIRED",
              description |-> "Moderate vegetation changes detected",
              risk_factors |-> medium \o info]
        ELSE [level |-> "INFO", priority |-> "STABLE_CONDITIONS",
              description |-> "Intelligent analysis shows stable vegetation patterns",
              risk_factors |-> info]

\* the except branch of assess_deforestation_risk
BasicReport(statistics) ==
    [level |-> "INFO", priority |-> "DATA_REPORT",
     description |-> "Vegetation analysis completed (basic mode)",
     risk_factors |->
         << Factor("avg_vegetation_coverage", statistics.avg_vegetation_coverage),
            Factor("avg_ndvi", statistics.avg_ndvi),
            Factor("data_quality", statistics.data_quality_percentage) >>,
     mode |-> "fallback"]

\* analyze_model_usage raises when an imageId has no split
AnalysisRaises(results) == \E i \in DOMAIN results : ~results[i].id_is_text

AssessDeforestationRisk(statistics, results, change_detection) ==
    IF AnalysisRaises(results) THEN BasicReport(statistics)
    ELSE LET risk_level == DetermineIntelligentRiskLevel(
                               AnalyzeModelUsage(results), change_detection, statistics)
         IN  [level |-> risk_level.level, priority |-> risk_level.priority,
              description |-> risk_level.description,
              risk_factors |-> risk_level.risk_factors,
              mode |-> "cluster_analysis"]

NoAssessment == [mode |-> "none"]

(***************************************************************************)
(* compare_models (model-manager): the event is validated, the pixel data  *)
(* and the two models are loaded, and the detector runs.                   *)
(***************************************************************************)
MaxLoadK == 1       \* most centroids of a model stored for a comparison

\* dict.get(key) is truthy: the field is there
Present(event, field) == field \in DOMAIN event

CompareFields ==
    {"tile_id", "region", "current_model_path", "historical_model_path", "pixel_data_path"}

\* what a model path may hold: an archive joblib can load, or anything else
\* (no object, no archive, no model file inside)
StoredObjects == {"model", "unreadable"}

CompleteCompareEvent ==
    [mode |-> "compare-models", tile_id |-> 1, region |-> "region",
     current_model_path |-> "current", historical_model_path |-> "historical",
     pixel_data_path |-> "pixels"]

CompareEvents ==
    { CompleteCompareEvent,
      [mode |-> "compare-models", tile_id |-> 1,
       current_model_path |-> "current", historical_model_path |-> "historical",
       pixel_data_path |-> "pixels"] }

\* the detector when a model that fails to load is replaced by the other
DetectWithLoadedModelOnly(current, historical, current_model, historical_model, pop) ==
    IF current # "model" /\ historical # "model"
    THEN [status |-> "raised", error |-> "load_current"]
    ELSE LET loaded_current == IF current = "model" THEN current_model ELSE historical_model
             loaded_historical == IF historical = "model" THEN historical_model ELSE current_model
             change_metrics == DetectVegetationChanges(loaded_current, loaded_historical, pop)
         IN  IF change_metrics.status = "raised"
             THEN [status |-> "raised", error |-> "predict"]
             ELSE change_metrics

\* detect_vegetation_changes from its first line: _load_model_from_s3 logs
\* and re-raises; the current model is loaded first
DetectFromPaths(current, historical, current_model, historical_model, pop) ==
    IF current # "model" THEN [status |-> "raised", error |-> "load_current"]
    ELSE IF historical # "model" THEN [status |-> "raised", error |-> "load_historical"]
    ELSE LET change_metrics == DetectVegetationChanges(current_model, historical_model, pop)
         IN  IF change_metrics.status = "raised"
             THEN [status |-> "raised", error |-> "predict"]
             ELSE change_metrics

Failed(error) == [outcome |-> "returned", status |-> "failed", error |-> error]

CompareModels(input, current_model, historical_model, pop) ==
    IF \E field \in CompareFields : ~Present(input.event, field)
    THEN [outcome |-> "raised"]
    ELSE IF ~input.data_available THEN Failed("pixel_data")
    ELSE LET change_metrics ==
                 DetectFromPaths(input.current, input.historical,
                                 current_model, historical_model, pop)
         IN  IF change_metrics.status = "raised" THEN Failed(change_metrics.error)
             ELSE [outcome |-> "returned", status |-> "completed",
                   change_detection |-> change_metrics]

NoComparison == [outcome |-> "none"]

(***************************************************************************)
(* perform_cluster_change_detection (results-consolidator) and the model   *)
(* manager it invokes.  A tile's stored versions are numbered, the newest  *)
(* having the greatest number.                                             *)
(***************************************************************************)
MaxVersions == 3    \* most stored model versions of a tile

\* get_model_history of a tile with n stored versions: newest first
ModelsOf(tile, n) ==
    [i \in 1..n |-> [model_version |-> n + 1 - i,
                     model_s3_path |-> <<"model", tile, n + 1 - i>>]]

\* the payload of an invocation whose handler raised
ErrorPayload == [errorType |-> "ValueError"]

\* get_model_history as the consolidator's caller sees it
ManagerGetModelHistory(event, input) ==
    IF ~Present(event, "tile_id") \/ ~Present(event, "region") THEN ErrorPayload
    ELSE [models |-> ModelsOf(event.tile_id, input.versions[event.tile_id])]

\* compare_models as the consolidator's caller sees it
ManagerCompareModels(event, input) ==
    IF \E field \in CompareFields : ~Present(event, field) THEN ErrorPayload
    ELSE input.comparison

\* lambda_handler of the model manager
ModelManager(event, input) ==
    IF event.mode = "compare-models" THEN ManagerCompareModels(event, input)
    ELSE IF event.mode = "get-model-history" THEN ManagerGetModelHistory(event, input)
    ELSE ErrorPayload

HistoryPayload(tile_id) == [mode |-> "get-model-history", tile_id |-> tile_id]

ComparePayload(tile_id, latest_model, historical_model, pixel_data_path) ==
    [mode |-> "compare-models", tile_id |-> tile_id,
     current_model_path |-> latest_model.model_s3_path,
     historical_model_path |-> historical_model.model_s3_path,
     pixel_data_path |-> pixel_data_path]

\* one pass of the loop over tile_groups: the payloads sent and the entry
\* appended, if any
ExamineTile(tile_id, input) ==
    IF ~input.invoke_ok THEN [requests |-> <<>>, detections |-> <<>>]
    ELSE
    LET payload == HistoryPayload(tile_id)
        models == DictGet(ModelManager(payload, input), "models", <<>>)
    IN  IF Len(models) >= 2 /\ input.pixel_data_path[tile_id]
        THEN LET compare_payload ==
                     ComparePayload(tile_id, models[1], models[Len(models)],
                                    <<"pixels", tile_id>>)
             IN  [requests |-> <<payload, compare_payload>>,
                  detections |-> << [tile_id |-> tile_id,
                                     comparison |-> ModelManager(compare_payload, input)] >>]
        ELSE [requests |-> <<payload>>, detections |-> <<>>]

RECURSIVE ExamineTiles(_, _)
ExamineTiles(tile_ids, input) ==
    IF tile_ids = <<>> THEN [requests |-> <<>>, detections |-> <<>>]
    ELSE LET first == ExamineTile(Head(tile_ids), input)
             rest == ExamineTiles(Tail(tile_ids), input)
         IN  [requests |-> first.requests \o rest.requests,
              detections |-> first.detections \o rest.detections]

PerformClusterChangeDetection(input) ==
    LET examined == ExamineTiles(Ascending(input.tile_groups), input)
    IN  [status |-> IF examined.detections # <<>> THEN "completed" ELSE "no_temporal_data",
         tiles_analyzed |-> Cardinality(input.tile_groups),
         change_detections |-> examined.detections]

ConsolidatorInputs ==
    [tile_groups : SUBSET TileIds,
     versions : [TileIds -> 0..MaxVersions],
     pixel_data_path : [TileIds -> BOOLEAN],
     invoke_ok : BOOLEAN,
     comparison : { [status |-> "completed", change_detection |-> Metrics(1, 1, 0, 0)],
                    [status |-> "failed", error |-> "error"] }]

NoDetection == [status |-> "none"]

(***************************************************************************)
(* Values of the variables a specification does not use.                   *)
(***************************************************************************)
IdleModel == [cluster_centers_ |-> <<Centroid(1, 3)>>]

NotClassified == [done |-> FALSE, map |-> EmptyMap]

IdleCD ==
    /\ histModel = IdleModel
    /\ pixels = <<>>
    /\ cdResult = NoResult

IdleClassify == classResult = NotClassified

IdleK ==
    /\ completedJobs = <<>>
    /\ kResult = NotAnalyzed

IdleSelect ==
    /\ kEvent = [mode |-> "select-optimal-k", has_training_data_path |-> TRUE]
    /\ kPc = "idle"
    /\ trainingJobs = <<>>
    /\ elapsed = 0
    /\ stopRequested = {}
    /\ stopFailed = {}
    /\ kResponse = NoResponse

IdleRisk ==
    /\ riskInput = [results |-> <<>>, change_detection |-> [status |-> "none"],
                    statistics |-> [avg_vegetation_coverage |-> 0]]
    /\ riskResult = NoAssessment

IdleCompare ==
    /\ cmpInput = [event |-> CompleteCompareEvent, current |-> "model",
                   historical |-> "model", data_available |-> TRUE]
    /\ cmpResult = NoComparison

IdleConsolidate ==
    /\ conInput = [tile_groups |-> {}]
    /\ conRequests = <<>>
    /\ conResult = NoDetection

IdleRegistry ==
    /\ clock = ClockStart
    /\ artifacts = EmptyMap
    /\ metadata = EmptyMap
    /\ saver = [p \in Savers |-> IdleSaver]
    /\ reader = [r \in Readers |-> IdleReader]

(***************************************************************************)
(* Classification as a state machine: a model is drawn, then classified.   *)
(***************************************************************************)
InitClassify ==
    /\ curModel \in Models(MaxK)
    /\ classResult = NotClassified
    /\ IdleCD
    /\ IdleRegistry
    /\ IdleK
    /\ IdleSelect
    /\ IdleRisk
    /\ IdleCompare
    /\ IdleConsolidate

ClassifyCentroids ==
    /\ ~classResult.done
    /\ classResult' = [done |-> TRUE, map |-> Classify(curModel)]
    /\ UNCHANGED <<cdVars, regVars, kVars, selVars, riskVars, cmpVars, conVars>>

NextClassify == ClassifyCentroids

SpecClassify == InitClassify /\ [][NextClassify]_vars

(***************************************************************************)
(* Change detection as a state machine: the inputs are drawn, then the     *)
(* detector runs once.                                                     *)
(***************************************************************************)
InitCD ==
    /\ curModel \in Models(MaxCmpK)
    /\ histModel \in Models(MaxCmpK)
    /\ pixels \in Populations
    /\ cdResult = NoResult
    /\ IdleClassify
    /\ IdleRegistry
    /\ IdleK
    /\ IdleSelect
    /\ IdleRisk
    /\ IdleCompare
    /\ IdleConsolidate

Detect ==
    /\ cdResult = NoResult
    /\ cdResult' = DetectVegetationChanges(curModel, histModel, pixels)
    /\ UNCHANGED <<curModel, histModel, pixels, classResult, regVars, kVars, selVars, riskVars, cmpVars, conVars>>

NextCD == Detect

SpecCD == InitCD /\ [][NextCD]_vars

(***************************************************************************)
(* The registry as a state machine: saves and lookups of one tile run      *)
(* concurrently, one storage call per step.                                *)
(***************************************************************************)
InitRegistry ==
    /\ IdleRegistry
    /\ curModel = IdleModel
    /\ IdleCD
    /\ IdleClassify
    /\ IdleK
    /\ IdleSelect
    /\ IdleRisk
    /\ IdleCompare
    /\ IdleConsolidate

(***************************************************************************)
(* k selection as a state machine: the completed jobs are drawn, then      *)
(* analysed.                                                               *)
(***************************************************************************)
InitK ==
    /\ \E S \in SUBSET KValues :
           \E order \in CompletionOrders(S) :
               \E f \in [S -> MetricVals \cup UNION { TieMetrics(k) : k \in KValues }] :
                   /\ \A k \in S : f[k] \in MetricValsOf(k)
                   /\ completedJobs = JobList(order, f)
    /\ kResult = NotAnalyzed
    /\ curModel = IdleModel
    /\ IdleCD
    /\ IdleClassify
    /\ IdleRegistry
    /\ IdleSelect
    /\ IdleRisk
    /\ IdleCompare
    /\ IdleConsolidate

Analyze ==
    /\ ~kResult.done
    /\ kResult' = AnalyzeKSelectionResults(completedJobs)
    /\ UNCHANGED <<completedJobs, cdVars, classResult, regVars, selVars, riskVars, cmpVars, conVars>>

NextK == Analyze

SpecK == InitK /\ [][NextK]_vars

(***************************************************************************)
(* One invocation of the k-selector.                                       *)
(***************************************************************************)
InitSelect ==
    /\ kEvent \in Events
    /\ kPc = "start"
    /\ trainingJobs = <<>>
    /\ elapsed = 0
    /\ stopRequested = {}
    /\ stopFailed = {}
    /\ kResponse = NoResponse
    /\ IdleK
    /\ curModel = IdleModel
    /\ IdleCD
    /\ IdleClassify
    /\ IdleRegistry
    /\ IdleRisk
    /\ IdleCompare
    /\ IdleConsolidate

NextSelect ==
    \/ HandlerRejects
    \/ Submit
    \/ PollRound
    \/ SelectK
    \/ CleanupAndReturn

SpecSelect == InitSelect /\ [][NextSelect]_vars

(***************************************************************************)
(* Risk aggregation as a state machine: the inputs are drawn, then the     *)
(* risk is assessed once.                                                  *)
(***************************************************************************)
InitRisk ==
    /\ \E results \in ProcessingResults :
           \E change_detection \in ChangeDetections :
               \E statistics \in StatisticsSet :
                   riskInput = [results |-> results,
                                change_detection |-> change_detection,
                                statistics |-> statistics]
    /\ riskResult = NoAssessment
    /\ curModel = IdleModel
    /\ IdleCD
    /\ IdleClassify
    /\ IdleRegistry
    /\ IdleK
    /\ IdleSelect
    /\ IdleCompare
    /\ IdleConsolidate

Assess ==
    /\ riskResult = NoAssessment
    /\ riskResult' = AssessDeforestationRisk(riskInput.statistics, riskInput.results,
                                             riskInput.change_detection)
    /\ UNCHANGED <<riskInput, cdVars, classResult, regVars, kVars, selVars, cmpVars, conVars>>

NextRisk == Assess

SpecRisk == InitRisk /\ [][NextRisk]_vars

NextRegistry ==
    \/ \E p \in Savers : SaveRejected(p)
    \/ \E p \in Savers : SaveDescribeFail(p)
    \/ \E p \in Savers : SaveBegin(p)
    \/ \E p \in Savers : SaveCopy(p)
    \/ \E p \in Savers : SaveCopyFail(p)
    \/ \E p \in Savers : SavePut(p)
    \/ \E p \in Savers : SavePutFail(p)
    \/ \E r \in Readers : LatestRejected(r)
    \/ \E r \in Readers : LatestListFail(r)
    \/ \E r \in Readers : LatestList(r)
    \/ \E r \in Readers : LatestGetFail(r)
    \/ \E r \in Readers : LatestGet(r)
    \/ Tick

SpecRegistry == InitRegistry /\ [][NextRegistry]_vars

(***************************************************************************)
(* One comparison of two stored models.                                    *)
(***************************************************************************)
InitCompare ==
    /\ cmpInput \in [event : CompareEvents, current : StoredObjects,
                     historical : StoredObjects, data_available : BOOLEAN]
    /\ cmpResult = NoComparison
    /\ curModel \in Models(MaxLoadK)
    /\ histModel \in Models(MaxLoadK)
    /\ pixels \in Populations
    /\ cdResult = NoResult
    /\ IdleClassify
    /\ IdleRegistry
    /\ IdleK
    /\ IdleSelect
    /\ IdleRisk
    /\ IdleConsolidate

Compare ==
    /\ cmpResult = NoComparison
    /\ cmpResult' = CompareModels(cmpInput, curModel, histModel, pixels)
    /\ UNCHANGED <<cmpInput, cdVars, classResult, regVars, kVars, selVars, riskVars, conVars>>

NextCompare == Compare

SpecCompare == InitCompare /\ [][NextCompare]_vars

(***************************************************************************)
(* One run of the consolidator's cluster change detection.                 *)
(***************************************************************************)
InitConsolidate ==
    /\ conInput \in ConsolidatorInputs
    /\ conRequests = <<>>
    /\ conResult = NoDetection
    /\ curModel = IdleModel
    /\ IdleCD
    /\ IdleClassify
    /\ IdleRegistry
    /\ IdleK
    /\ IdleSelect
    /\ IdleRisk
    /\ IdleCompare

Consolidate ==
    /\ conResult = NoDetection
    /\ conRequests' = ExamineTiles(Ascending(conInput.tile_groups), conInput).requests
    /\ conResult' = PerformClusterChangeDetection(conInput)
    /\ UNCHANGED <<conInput, cdVars, classResult, regVars, kVars, selVars, riskVars, cmpVars>>

NextConsolidate == Consolidate

SpecConsolidate == InitConsolidate /\ [][NextConsolidate]_vars

(***************************************************************************)
(* Properties of change detection                                          *)
(***************************************************************************)
\* the detector ran both models over the population and returned a tally
FullTally ==
    /\ cdResult.status = "returned"
    /\ cdResult.analysis_method = "change_detection_with_centroid_classification"

\* both models accept the 3-feature vectors the detector passes to predict
PredictDefined ==
    /\ NFeatures(curModel) = 3
    /\ NFeatures(histModel) = 3

\* semantic label of pixel i under the historical / the current model
HistLabel(i) == MapGet(Classify(histModel), Predict(histModel, Slice3(pixels[i])))
CurLabel(i) == MapGet(Classify(curModel), Predict(curModel, Slice3(pixels[i])))

PixelsWith(h, c) ==
    Cardinality({ i \in 1..Len(pixels) : HistLabel(i) = h /\ CurLabel(i) = c })

PixelsRelabelled ==
    Cardinality({ i \in 1..Len(pixels) : HistLabel(i) # CurLabel(i) })

\* C1: for a non-empty population the reported transition counters add up to
\* the changed-pixel count, and the changed-pixel count is at most |P|.
C1_TransitionsSumToChanged ==
    (Len(pixels) > 0 /\ FullTally) =>
        /\ cdResult.forest_to_degraded + cdResult.forest_to_deforested
             + cdResult.degraded_to_deforested + cdResult.new_growth_pixels
           = cdResult.pixels_changed_clusters
        /\ cdResult.pixels_changed_clusters <= Len(pixels)

\* C2: each pixel whose label differs adds one to the tally entry of its
\* transition: forest_to_degraded, degraded_to_deforested and
\* forest_to_deforested equal the number of pixels with those two labels.
C2_TransitionCountersExact ==
    FullTally =>
        /\ cdResult.forest_to_degraded = PixelsWith("dense_forest", "degraded_vegetation")
        /\ cdResult.degraded_to_deforested = PixelsWith("degraded_vegetation", "deforested")
        /\ cdResult.forest_to_deforested = PixelsWith("dense_forest", "deforested")

\* C3: a model with k >= 2 centroids gets a label for every cluster index
\* 0..k-1: exactly one dense_forest, exactly one deforested, and the other
\* k-2 degraded_vegetation (none for k = 2).
NumCentroids == Len(curModel.cluster_centers_)

Labelled(label) == { i \in DOMAIN classResult.map : classResult.map[i] = label }

C3_OneHighOneClearedRestDegraded ==
    (classResult.done /\ NumCentroids >= 2) =>
        /\ DOMAIN classResult.map = 0..(NumCentroids - 1)
        /\ Cardinality(Labelled("dense_forest")) = 1
        /\ Cardinality(Labelled("deforested")) = 1
        /\ Cardinality(Labelled("degraded_vegetation")) = NumCentroids - 2

\* a classified model of at least 3 centroids that all share one
\* vegetation-index value
C3_Witness ==
    /\ classResult.done
    /\ NumCentroids >= 3
    /\ \A i, j \in 1..NumCentroids :
           curModel.cluster_centers_[i][1] = curModel.cluster_centers_[j][1]
    /\ Cardinality(Labelled("degraded_vegetation")) = NumCentroids - 2

\* C4: the changed-pixel count is the number of pixels whose semantic label
\* under the historical model differs from the label under the current
\* model, whatever cluster indices the two models give them.
C4_ChangedIffLabelsDiffer ==
    (cdResult.status = "returned" /\ PredictDefined) =>
        cdResult.pixels_changed_clusters = PixelsRelabelled

(***************************************************************************)
(* Properties of the registry                                              *)
(***************************************************************************)
Succeeded(p) == saver[p].pc = "returned"

\* invocation p writes its metadata and returns status success in this step
SaveCompletes(p) == saver[p].pc = "put" /\ saver'[p].pc = "returned"

NotAfter(v, w) == v = w \/ LexLess(v, w)

\* C5: right after a successful save, get_latest_model returns the version
\* just saved, whose identifier sorts after every version stored before.
C5_SaveThenGetLatest ==
    [][\A p \in Savers :
          SaveCompletes(p) =>
              /\ GetLatestModel' =
                     [model_exists |-> TRUE,
                      metadata |-> Metadata(saver[p].version, saver[p].job)]
              /\ \A v \in DOMAIN metadata : LexLess(v, saver[p].version)]_vars

\* C6: successful saves never share a version identifier, so the history
\* holds one entry per successful save.
C6_VersionsNeverOverwritten ==
    /\ \A p, q \in Savers :
           (p # q /\ Succeeded(p) /\ Succeeded(q)) => saver[p].version # saver[q].version
    /\ Len(GetModelHistory) = Cardinality({ p \in Savers : Succeeded(p) })

\* C7: a lookup that overlaps saves, and meets no I/O error, returns a
\* completely stored version that is not older than the latest one complete
\* when the lookup listed the versions; it returns absence only if no
\* version was complete then.
C7_LookupNeverSeesHalfWrittenVersion ==
    \A r \in Readers :
        (reader[r].pc = "returned" /\ ~reader[r].fault) =>
            IF reader[r].model_exists
            THEN /\ reader[r].metadata.model_version \in DOMAIN metadata
                 /\ \A v \in reader[r].complete_at_list :
                        NotAfter(v, reader[r].metadata.model_version)
            ELSE reader[r].complete_at_list = {}

\* C8: a version's metadata is stored only once its artifact is; a save
\* returns status success only if no step failed and both objects are
\* stored, and a failed step ends the save with the exception raised.
C8_MetadataOnlyAfterArtifact ==
    /\ \A v \in DOMAIN metadata : v \in DOMAIN artifacts
    /\ \A p \in Savers :
           /\ Succeeded(p) =>
                  /\ saver[p].fault = "none"
                  /\ saver[p].version \in DOMAIN artifacts
                  /\ saver[p].version \in DOMAIN metadata
           /\ saver[p].fault # "none" => saver[p].pc = "raised"

\* one save returned success and another one failed at the metadata write,
\* after its artifact was copied
C8_Witness ==
    \E p, q \in Savers :
        /\ Succeeded(p)
        /\ saver[q].pc = "raised"
        /\ saver[q].fault = "put"
        /\ saver[q].version \in DOMAIN artifacts

CompletedKs == { completedJobs[i].k : i \in DOMAIN completedJobs }

MsdOf(k) == completedJobs[CHOOSE i \in DOMAIN completedJobs : completedJobs[i].k = k].msd

\* the metric falls from k=2 to k=3 and thereafter never rises and falls by
\* less than 30% of that first fall at each step
ClearElbowAt3 ==
    /\ CompletedKs = KValues
    /\ MsdOf(2) > MsdOf(3)
    /\ \A k \in {3, 4, 5} :
           /\ MsdOf(k) >= MsdOf(k + 1)
           /\ 10 * (MsdOf(k) - MsdOf(k + 1)) < 3 * (MsdOf(2) - MsdOf(3))

\* C10: when candidates 2..6 all completed and the metric has a clear elbow
\* at k=3, the analysis returns optimal k 3 with confidence 0.8.
C10_ClearElbowSelectsThree ==
    (kResult.done /\ ClearElbowAt3) =>
        /\ kResult.optimal_k = 3
        /\ kResult.confidence = 8

(***************************************************************************)
(* Properties of the k-selector invocation                                 *)
(***************************************************************************)
\* the event passes the checks of lambda_handler and select_optimal_k
EventValid == kEvent.mode = "select-optimal-k" /\ kEvent.has_training_data_path

\* the candidates whose training_jobs entry has status st
KsWithStatus(st) ==
    { trainingJobs[i].k : i \in { j \in DOMAIN trainingJobs : trainingJobs[j].status = st } }

\* the submitted candidates the selector still records as in progress
StillInProgress ==
    { trainingJobs[i].k :
        i \in { j \in DOMAIN trainingJobs :
                  trainingJobs[j].job_arn /\ trainingJobs[j].status = "InProgress" } }

\* the candidates whose submission raised
SubmissionFailed ==
    { trainingJobs[i].k : i \in { j \in DOMAIN trainingJobs : ~trainingJobs[j].job_arn } }

\* select_optimal_k returned
Returned == kPc = "done" /\ EventValid

\* the response carries the k, reason and confidence of selection sel
ResponseCarries(sel) ==
    /\ kResponse.optimal_k = sel.optimal_k
    /\ kResponse.selection_reason = sel.reason
    /\ kResponse.confidence_score = sel.confidence

\* C11: when polling ends with no candidate job in status Completed (all
\* submissions failed, all jobs failed or stopped, or the timeout came
\* first), select_optimal_k returns statusCode 200, status success, k = 4,
\* confidence 0.5 and the reason that no training job succeeded.
C11_DefaultWhenNoneCompleted ==
    (Returned /\ KsWithStatus("Completed") = {}) =>
        /\ kResponse.outcome = "returned"
        /\ kResponse.statusCode = 200
        /\ kResponse.status = "success"
        /\ kResponse.optimal_k = 4
        /\ kResponse.confidence_score = 5
        /\ kResponse.selection_reason = "default_no_successful_jobs"

\* the timeout came with a job still in progress, another one stopped and a
\* third never submitted, and none completed
C11_Witness ==
    /\ Returned
    /\ KsWithStatus("Completed") = {}
    /\ StillInProgress # {}
    /\ KsWithStatus("Stopped") # {}
    /\ SubmissionFailed # {}
    /\ elapsed >= MaxWaitPolls

\* C12: a submission that raises marks only its own candidate Failed: every
\* candidate of [2,3,4,5,6] has its entry, the others are submitted and
\* polled until they end or the timeout comes, and the selection is made
\* from the candidates that completed.
C12_FailedSubmissionDoesNotAbort ==
    (kPc \in {"polling", "selected", "done"} /\ EventValid) =>
        /\ Len(trainingJobs) = Len(KValueList)
        /\ \A i \in DOMAIN trainingJobs :
               /\ trainingJobs[i].k = KValueList[i]
               /\ ~trainingJobs[i].job_arn => trainingJobs[i].status = "Failed"
        /\ kPc = "done" =>
               /\ StillInProgress # {} => elapsed >= MaxWaitPolls
               /\ CompletedKs = KsWithStatus("Completed")
               /\ kResponse =
                      SuccessResponse(SelectFrom(completedJobs), completedJobs, trainingJobs)

\* one submission raised, the four other candidates completed and one of
\* them was selected
C12_Witness ==
    /\ Returned
    /\ Cardinality(SubmissionFailed) = 1
    /\ Cardinality(KsWithStatus("Completed")) = Len(KValueList) - 1
    /\ kResponse.optimal_k \in KsWithStatus("Completed")
    /\ kResponse.selection_reason \in {"elbow", "best_score"}

\* C13: by the time select_optimal_k returns, stop_training_job was called
\* for every submitted job the selector still records as InProgress and for
\* no job it recorded as Completed, Failed or Stopped; a stop call that
\* raises leaves the returned k, reason and confidence as selected.
C13_StopsExactlyTheRunningJobs ==
    (kResponse.outcome = "returned" /\ EventValid) =>
        /\ kPc = "done"
        /\ stopRequested = StillInProgress
        /\ stopRequested \cap (KsWithStatus("Completed") \cup KsWithStatus("Failed")
                                 \cup KsWithStatus("Stopped")) = {}
        /\ ResponseCarries(SelectFrom(completedJobs))

\* a stop call raised, while other jobs had completed, failed or stopped
C13_Witness ==
    /\ Returned
    /\ stopFailed # {}
    /\ KsWithStatus("Completed") # {}
    /\ KsWithStatus("Failed") \ SubmissionFailed # {}
    /\ KsWithStatus("Stopped") # {}

\* the timeout elapsed with a job still in progress
TimedOut == elapsed >= MaxWaitPolls /\ StillInProgress # {}

\* C14: when the timeout elapses while jobs are still running and at least
\* one job completed, the k is selected from exactly the jobs seen Completed
\* (not the default); running jobs contribute nothing.
C14_TimeoutSelectsFromCompleted ==
    (Returned /\ TimedOut /\ KsWithStatus("Completed") # {}) =>
        /\ CompletedKs = KsWithStatus("Completed")
        /\ ResponseCarries(AnalyzeKSelectionResults(completedJobs))
        /\ kResponse.selection_reason \in {"elbow", "best_score"}
        /\ kResponse.optimal_k \in KsWithStatus("Completed")

\* the timeout came with three jobs completed and one still running
C14_Witness ==
    /\ Returned
    /\ TimedOut
    /\ Cardinality(KsWithStatus("Completed")) = 3
    /\ kResponse.optimal_k \in KsWithStatus("Completed")

\* C20: a request without a required event field is rejected by an error
\* raised to the caller, before any side effect; for select-optimal-k the
\* field is training_data_path.  (The model-manager modes raise ValueError:
\* SaveRejected, LatestRejected.)
C20_MissingFieldIsRaised ==
    (kPc = "done" /\ kEvent.mode = "select-optimal-k"
        /\ ~kEvent.has_training_data_path) =>
        /\ kResponse.outcome = "raised"
        /\ trainingJobs = <<>>
        /\ stopRequested = {}

(***************************************************************************)
(* Properties of risk aggregation                                          *)
(***************************************************************************)
\* determine_intelligent_risk_level returned the assessment
ClusterAnalysis == riskResult.mode = "cluster_analysis"

\* the per-tile comparisons handed to the risk aggregator
Detections ==
    IF "change_detections" \in DOMAIN riskInput.change_detection
    THEN riskInput.change_detection.change_detections
    ELSE <<>>

\* the count a tile's tally holds for key (0 when the tally lacks it)
Count(detection, key) ==
    IF "change_detection" \in DOMAIN detection.comparison
    THEN IF key \in DOMAIN detection.comparison.change_detection
         THEN detection.comparison.change_detection[key]
         ELSE 0
    ELSE 0

\* HighCover->Degraded, Degraded->Cleared or HighCover->Cleared
ShowsDowngrade(detection) ==
    \/ Count(detection, "forest_to_degraded") > 0
    \/ Count(detection, "degraded_to_deforested") > 0
    \/ Count(detection, "forest_to_deforested") > 0

ShowsChange(detection) == Count(detection, "pixels_changed_clusters") > 0

AnyDowngrade == \E i \in DOMAIN Detections : ShowsDowngrade(Detections[i])

AnyChange == \E i \in DOMAIN Detections : ShowsChange(Detections[i])

\* C15: the level is HIGH whenever some tile's tally has a nonzero count of
\* a downgrade transition, whatever the other tiles show.
C15_DowngradeIsHigh ==
    (ClusterAnalysis /\ AnyDowngrade) => riskResult.level = "HIGH"

\* C16: the level is one of HIGH, MEDIUM, INFO; it is MEDIUM exactly when
\* no tile shows a downgrade and some tile has changed pixels, and INFO
\* exactly when no tile shows a downgrade and none has changed pixels.
C16_MediumAndInfoExact ==
    ClusterAnalysis =>
        /\ riskResult.level \in {"HIGH", "MEDIUM", "INFO"}
        /\ riskResult.level = "MEDIUM" <=> (~AnyDowngrade /\ AnyChange)
        /\ riskResult.level = "INFO" <=> (~AnyDowngrade /\ ~AnyChange)

FactorKinds ==
    { riskResult.risk_factors[i].kind : i \in DOMAIN riskResult.risk_factors }

\* C17: whatever the level and the inputs, risk_factors holds the model
\* reuse efficiency, the number of distinct tiles and the aggregate
\* vegetation statistics.
C17_SupportingFactorsAlways ==
    ClusterAnalysis =>
        {"model_efficiency", "unique_tiles", "avg_vegetation_coverage",
         "avg_ndvi", "data_quality"} \subseteq FactorKinds

\* change detection failed or gave no data for every tile
NoChangeData ==
    \/ riskInput.change_detection.status \in {"failed", "no_temporal_data"}
    \/ \A i \in DOMAIN Detections : Detections[i].comparison.status = "failed"

\* C18: when change detection failed or gave no data for every tile, the
\* assessment is the data-report fallback: level INFO with the priority and
\* description of the basic report, not those of stable vegetation.
C18_NoChangeDataIsDataReport ==
    (riskResult.mode # "none" /\ NoChangeData) =>
        /\ riskResult.level = "INFO"
        /\ riskResult.priority = "DATA_REPORT"
        /\ riskResult.description = "Vegetation analysis completed (basic mode)"

(***************************************************************************)
(* Change detection on an empty population                                 *)
(***************************************************************************)
TallyFields ==
    {"change_percentage", "forest_to_degraded", "degraded_to_deforested",
     "forest_to_deforested", "new_growth_pixels"}

\* C19: for an empty population the detector returns the no-data indicator
\* with changed-pixel count 0, every transition count 0 and change
\* percentage 0.
C19_EmptyPopulationZeroTally ==
    (pixels = <<>> /\ cdResult.status # "none") =>
        /\ cdResult.status = "returned"
        /\ cdResult.analysis_method = "change_detection_no_data"
        /\ cdResult.pixels_changed_clusters = 0
        /\ \A key \in TallyFields : key \in DOMAIN cdResult /\ cdResult[key] = 0

(***************************************************************************)
(* Ties in the centroid classification                                     *)
(***************************************************************************)
\* vegetation index of the centroid with cluster index i (0-based)
NdviOf(i) == curModel.cluster_centers_[i + 1][1]

ClusterIndices == 0..(NumCentroids - 1)

\* the cluster indices whose centroid has the highest / the lowest index value
Highest == { i \in ClusterIndices : \A j \in ClusterIndices : NdviOf(j) <= NdviOf(i) }
Lowest == { i \in ClusterIndices : \A j \in ClusterIndices : NdviOf(i) <= NdviOf(j) }

\* C22: centroids that share a vegetation-index value are ranked in
\* increasing cluster-index order: for k >= 2, dense_forest is the lowest
\* index among the centroids tied for the highest value and deforested the
\* highest index among those tied for the lowest value; the mapping is the
\* same every time the model is classified.
C22_TiesByClusterIndex ==
    (classResult.done /\ NumCentroids >= 2) =>
        /\ Labelled("dense_forest") = { SetMin(Highest) }
        /\ Labelled("deforested") = { CHOOSE i \in Lowest : \A j \in Lowest : j <= i }
        /\ classResult.map = Classify(curModel)
        /\ \A i \in DOMAIN SortedClusters(curModel) :
               \A j \in DOMAIN SortedClusters(curModel) :
                   (i < j /\ SortedClusters(curModel)[i].ndvi = SortedClusters(curModel)[j].ndvi)
                       => SortedClusters(curModel)[i].idx < SortedClusters(curModel)[j].idx

\* a classified model whose highest value is shared by two centroids and
\* whose lowest value is shared by two others
C22_Witness ==
    /\ classResult.done
    /\ Cardinality(Highest) >= 2
    /\ Cardinality(Lowest) >= 2
    /\ Highest \cap Lowest = {}

(***************************************************************************)
(* The vectors handed to predict, and the no-data guard                    *)
(***************************************************************************)
\* feature_dim of the training jobs: NDVI, Red, NIR, Lat, Lng
FeatureDim == 5

\* the guard was passed and both models were asked to predict
PredictCalled ==
    /\ cdResult.status # "none"
    /\ ArrayAny(PixelsToPredict(pixels))

\* C28: every vector passed to a model's predict has as many features as
\* the model's centroids and training data, namely 5.
C28_PredictGetsFullVectors ==
    PredictCalled =>
        \A i \in DOMAIN PixelsToPredict(pixels) :
            /\ Len(PixelsToPredict(pixels)[i]) = FeatureDim
            /\ Len(PixelsToPredict(pixels)[i]) = NFeatures(curModel)
            /\ Len(PixelsToPredict(pixels)[i]) = NFeatures(histModel)

\* C29: the no-data result is returned only for an empty population; for
\* every non-empty one, all-zero feature values included, both models are
\* applied to every pixel and a full tally over |P| pixels is returned.
C29_NoDataOnlyWhenEmpty ==
    /\ (cdResult.status = "returned"
          /\ cdResult.analysis_method = "change_detection_no_data") => pixels = <<>>
    /\ (cdResult.status # "none" /\ pixels # <<>> /\ PredictDefined) =>
           /\ FullTally
           /\ cdResult.total_pixels = Len(pixels)

(***************************************************************************)
(* The end of the poll loop and the k the handler returns                  *)
(***************************************************************************)
\* every submitted job is recorded with a terminal status
AllTerminal == kPc = "polling" /\ trainingJobs # <<>> /\ StillInProgress = {}

\* C24: the poll loop ends as soon as every submitted job has reached a
\* terminal status (Completed, Failed or Stopped), without waiting for the
\* timeout, and never runs past the timeout.
C24_LoopEndsWhenAllTerminal ==
    /\ AllTerminal => ~KeepPolling(completedJobs, trainingJobs, elapsed)
    /\ elapsed <= MaxWaitPolls

\* C30: lambda_handler always returns a top-level optimal_k: the k of a job
\* observed Completed, or 4 when none completed, on the success path, and 4
\* on every failure path; so optimal_k is always one of 2..6.
C30_AlwaysReturnsCandidateK ==
    kPc = "done" =>
        /\ kResponse.outcome = "returned"
        /\ kResponse.optimal_k \in KValues
        /\ EventValid =>
              /\ kResponse.statusCode = 200
              /\ KsWithStatus("Completed") # {} =>
                     kResponse.optimal_k \in KsWithStatus("Completed")
              /\ KsWithStatus("Completed") = {} => kResponse.optimal_k = 4
        /\ ~EventValid =>
              /\ kResponse.statusCode = 500
              /\ kResponse.optimal_k = 4

\* a rejected event was answered
C30_Witness ==
    /\ kPc = "done"
    /\ ~EventValid
    /\ kResponse.optimal_k = 4

(***************************************************************************)
(* Agreement of the two registry lookups                                   *)
(***************************************************************************)
\* no save is between its steps
NoSaveRunning == \A p \in Savers : saver[p].pc \in {"idle", "returned", "raised"}

\* C26: on every registry state that saves leave behind, a save that failed
\* between the artifact copy and the metadata write included,
\* get_latest_model reports a model exactly when get_model_history is not
\* empty, and then returns the metadata of the first entry of the history.
C26_LatestAgreesWithHistory ==
    NoSaveRunning =>
        /\ GetLatestModel.model_exists <=> (GetModelHistory # <<>>)
        /\ GetLatestModel.model_exists =>
               GetLatestModel.metadata = Head(GetModelHistory)

(***************************************************************************)
(* The best-score branch of the analysis, and the order of completion      *)
(***************************************************************************)
\* score(k) = quality metric + 0.1 * k, in tenths
ScoreOf(k) == MsdOf(k) + k

\* no position of the improvement list is below the elbow threshold
NoElbow == ElbowPositions(Improvements(KAnalysis(completedJobs))) = {}

\* the lowest score among the candidates other than the selected one
SecondBestScore == SetMin({ ScoreOf(k) : k \in CompletedKs \ {kResult.optimal_k} })

\* C23: with fewer than 3 completed candidates, or with no elbow, the
\* analysis returns a completed k of globally lowest score, with confidence
\* min(0.9, 0.5 + 2 * (second-best score - best score)) when two or more
\* completed; the confidence never exceeds 0.9.
C23_BestScoreAndCappedConfidence ==
    (kResult.done /\ completedJobs # <<>> /\ (Len(completedJobs) < 3 \/ NoElbow)) =>
        /\ kResult.reason = "best_score"
        /\ kResult.optimal_k \in CompletedKs
        /\ \A k \in CompletedKs : ScoreOf(kResult.optimal_k) <= ScoreOf(k)
        /\ Len(completedJobs) >= 2 =>
               kResult.confidence =
                   Min2(9, 5 + 2 * (SecondBestScore - ScoreOf(kResult.optimal_k)))
        /\ kResult.confidence <= 9

\* two candidates completed, with a score gap that the cap cuts
C23_Witness ==
    /\ kResult.done
    /\ Len(completedJobs) = 2
    /\ kResult.reason = "best_score"
    /\ SecondBestScore - ScoreOf(kResult.optimal_k) > 2
    /\ kResult.confidence = 9

\* the completed jobs in increasing order of k
InOrderOfK == JobList(Ascending(CompletedKs), [k \in CompletedKs |-> MsdOf(k)])

\* C25: the selected k, reason and confidence depend only on the set of
\* (k, metric) pairs of the completed jobs: the jobs completing in any order
\* give what the same jobs give in increasing order of k.
C25_SelectionIndependentOfOrder ==
    kResult.done => kResult = AnalyzeKSelectionResults(InOrderOfK)

(***************************************************************************)
(* Properties of compare_models                                            *)
(***************************************************************************)
\* compare_models ran on a complete event
Compared ==
    /\ cmpResult # NoComparison
    /\ \A field \in CompareFields : Present(cmpInput.event, field)

\* C21: if the current or the historical model cannot be loaded,
\* compare_models reports a failure that carries the error and returns no
\* change_detection tally, not even one computed from the model that loaded.
C21_LoadFailureGivesNoTally ==
    (Compared /\ (cmpInput.current # "model" \/ cmpInput.historical # "model")) =>
        /\ cmpResult.outcome = "returned"
        /\ cmpResult.status = "failed"
        /\ "error" \in DOMAIN cmpResult
        /\ "change_detection" \notin DOMAIN cmpResult
        /\ cmpInput.data_available =>
               cmpResult.error = IF cmpInput.current # "model"
                                 THEN "load_current" ELSE "load_historical"

\* the pixel data and the current model loaded, the historical one did not,
\* and there were pixels to compare
C21_Witness ==
    /\ Compared
    /\ cmpInput.data_available
    /\ cmpInput.current = "model"
    /\ cmpInput.historical # "model"
    /\ pixels # <<>>
    /\ cmpResult.status = "failed"

(***************************************************************************)
(* Properties of the consolidator's cluster change detection               *)
(***************************************************************************)
\* the fields the model manager requires of a request
RequiredFields(mode) ==
    IF mode = "compare-models" THEN CompareFields ELSE {"tile_id", "region"}

\* the tiles with two or more stored versions and a pixel-data path
Comparable ==
    { t \in conInput.tile_groups :
        conInput.versions[t] >= 2 /\ conInput.pixel_data_path[t] }

Sent == { conRequests[i] : i \in DOMAIN conRequests }

Detected == { conResult.change_detections[i] : i \in DOMAIN conResult.change_detections }

\* C27: for every tile with two or more stored versions and a pixel-data
\* path the consolidator obtains a comparison: its get-model-history and
\* compare-models requests carry every field the model manager requires, so
\* none is rejected, and the comparison is of the newest version against the
\* oldest.
C27_EveryComparableTileIsCompared ==
    (conResult # NoDetection /\ conInput.invoke_ok) =>
        /\ \A r \in Sent : \A field \in RequiredFields(r.mode) : Present(r, field)
        /\ \A t \in Comparable :
               /\ \E d \in Detected :
                      d.tile_id = t /\ d.comparison = conInput.comparison
               /\ \E r \in Sent :
                      /\ r.mode = "compare-models"
                      /\ r.tile_id = t
                      /\ r.current_model_path = <<"model", t, conInput.versions[t]>>
                      /\ r.historical_model_path = <<"model", t, 1>>

====
